---- MODULE Spec2Model ----
(***************************************************************************)
(* A model of the OCR core (src/ocr_core.py) and of the GUI handlers that  *)
(* drive it (src/app.py).                                                  *)
(*                                                                         *)
(* Four specifications share the module:                                   *)
(*   SpecGroup   group_into_lines, one loop iteration per step             *)
(*   SpecRun     run_ocr called directly, one stage per step               *)
(*   SpecGui     App.pick_image / run_clicked / worker / ui callbacks      *)
(*   SpecExport  export_txt / export_csv / export_overlay_png on a file    *)
(*               system                                                    *)
(*                                                                         *)
(* Numbers.  Python floats are modelled by exact fixed-point rationals:    *)
(* a vertical quantity v (a centre, a tolerance) is stored as the integer  *)
(* v * Den.  Confidences, scale and min_conf are stored in hundredths.     *)
(* Text is a sequence of one-character strings.                            *)
(***************************************************************************)
EXTENDS Integers, Sequences, FiniteSets, TLC

VARIABLES
    \* ---- group_into_lines (SpecGroup)
    results_in,   \* the `results` argument
    y_tol,        \* the `y_tol` argument, times Den
    items,        \* `items` after the sort of line 102
    k,            \* position of the outer loop of line 107 in items
    lines,        \* `lines`: the clusters, each a sequence of members
    line_cys,     \* `line_cys`: the running centres, times Den
    out_lines,    \* `out_lines`, the return value
    gpc,          \* "start" | "loop" | "done"
    placed_at,    \* index of the cluster the last iteration used (0: none yet)
    \* ---- run_ocr (SpecRun, SpecGui)
    frame,        \* the activation of run_ocr: its arguments, locals, position,
                  \* the stages entered so far, and how it ended
    \* ---- App (SpecGui, SpecExport)
    image_path,       \* self.image_path
    last_lines,       \* self.last_lines
    last_overlay_bgr, \* self.last_overlay_bgr
    btn_run,          \* state of the Run OCR button
    btn_export,       \* state of the three export buttons (set together)
    status,           \* text of the status label
    dialog,           \* the last message box shown
    running,          \* self._running
    wpc,              \* the worker thread: its position and the cfg it closes over
    after_q,          \* callbacks scheduled with self.after(0, ...)
    \* ---- the file system (SpecExport)
    fs,               \* directories and files
    last_export       \* the last export call and how it ended

gvars == <<results_in, y_tol, items, k, lines, line_cys, out_lines, gpc, placed_at>>
rvars == <<frame>>
uvars == <<image_path, last_lines, last_overlay_bgr, btn_run, btn_export, status,
           dialog, running, wpc, after_q>>
evars == <<fs, last_export>>
vars == <<gvars, rvars, uvars, evars>>

\* Python's None, and a value that is not None.
None == <<>>
Some(v) == <<v>>

-----------------------------------------------------------------------------
\* Bounds of the model.

\* Longest fragment list handed to group_into_lines / returned by the engine.
MaxFrags == 3

\* Longest list of lines handed to export_txt / export_csv.
MaxLines == 2

\* Most export calls in one behaviour: a call and its repetitions.
MaxCalls == 2

\* 10^n
RECURSIVE Pow10(_)
Pow10(n) == IF n = 0 THEN 1 ELSE 10 * Pow10(n - 1)

\* Fixed-point denominator.  A centre is a half-integer that went through at
\* most MaxFrags smoothing steps of denominator 10 each; the extra 10^2
\* keeps 18.0 * scale / 2.5 exact for a scale given in hundredths.
Den == 2 * Pow10(MaxFrags + 2)

\* |a|
Abs(a) == IF a < 0 THEN -a ELSE a

\* Sequences over S of length at most n.
SeqsUpTo(S, n) == UNION {[1..m -> S] : m \in 0..n}

Min(S) == CHOOSE a \in S : \A b \in S : a <= b
Max(S) == CHOOSE a \in S : \A b \in S : a >= b

-----------------------------------------------------------------------------
\* Fragments: (bbox, text, conf) triples as the recognition engine returns them.

\* An axis-aligned quadrilateral, corner by corner.
Quad(x1, y1, x2, y2) == << <<x1, y1>>, <<x2, y1>>, <<x2, y2>>, <<x1, y2>> >>

Fragment(bbox, text, conf) == [bbox |-> bbox, text |-> text, conf |-> conf]

\* _bbox_to_rect: min/max over the polygon's points.  The model's coordinates
\* are integers, on which int() is the identity.
bbox_to_rect(bbox) ==
    LET xs == {bbox[i][1] : i \in 1..Len(bbox)}
        ys == {bbox[i][2] : i \in 1..Len(bbox)}
    IN  [x1 |-> Min(xs), y1 |-> Min(ys), x2 |-> Max(xs), y2 |-> Max(ys)]

-----------------------------------------------------------------------------
\* group_into_lines

\* Weights of the running-centre update, line 112: 0.7 and 0.3 in tenths.
KeepWeight == 7
NewWeight == 3
WeightDen == 10

\* Lines 97-100: one item per fragment.  cy = 0.5 * (y1 + y2), times Den.
\* id is a ghost field: the fragment's position in the argument list.
MakeItem(frag, id) ==
    LET r == bbox_to_rect(frag.bbox)
    IN  [y1 |-> r.y1, cy |-> (r.y1 + r.y2) * (Den \div 2), x1 |-> r.x1,
         text |-> frag.text, id |-> id]

MakeItems(results) == [i \in 1..Len(results) |-> MakeItem(results[i], i)]

\* The sort key of line 102.
KeyLeq(a, b) == a.y1 < b.y1 \/ (a.y1 = b.y1 /\ a.x1 <= b.x1)

\* list.sort is stable: an element goes after every element whose key is not
\* greater than its own.
RECURSIVE InsertItem(_, _)
InsertItem(s, e) ==
    IF s = <<>> THEN <<e>>
    ELSE IF KeyLeq(s[1], e) THEN <<s[1]>> \o InsertItem(Tail(s), e)
    ELSE <<e>> \o s

\* Line 102: items.sort(key=lambda t: (t[0], t[2])).
RECURSIVE SortItems(_)
SortItems(its) ==
    IF its = <<>> THEN <<>>
    ELSE InsertItem(SortItems(SubSeq(its, 1, Len(its) - 1)), its[Len(its)])

\* Line 110: abs(cy - lcy) <= y_tol.
Within(cy, lcy, tol) == Abs(cy - lcy) <= tol

\* Lines 109-114: the index of the cluster the inner loop stops at, scanning
\* from index i; 0 when it runs to the end (placed stays False).
RECURSIVE FirstMatchFrom(_, _, _, _)
FirstMatchFrom(i, cys, cy, tol) ==
    IF i > Len(cys) THEN 0
    ELSE IF Within(cy, cys[i], tol) THEN i
    ELSE FirstMatchFrom(i + 1, cys, cy, tol)

\* A best-match rule: the closest cluster within the tolerance (lowest index
\* among equally close ones), 0 when none is within it.
BestMatch(cys, cy, tol) ==
    LET Q == {i \in 1..Len(cys) : Within(cy, cys[i], tol)}
    IN  IF Q = {} THEN 0
        ELSE Min({i \in Q : \A j \in Q : Abs(cy - cys[i]) <= Abs(cy - cys[j])})

FirstMatch(cys, cy, tol) == FirstMatchFrom(1, cys, cy, tol)

\* Line 112: 0.7 * line_cys[i] + 0.3 * cy.
Smooth(lcy, cy) == (KeepWeight * lcy + NewWeight * cy) \div WeightDen

\* A member of a cluster: (x1, text), with the ghost id.
Member(it) == [x1 |-> it.x1, text |-> it.text, id |-> it.id]

\* Lines 107-117: one iteration of the outer loop on the state (lines, cys).
PlaceItem(st, it, tol) ==
    LET m == FirstMatch(st.cys, it.cy, tol)
    IN  IF m # 0
        THEN [lines |-> [st.lines EXCEPT ![m] = Append(@, Member(it))],
              cys   |-> [st.cys EXCEPT ![m] = Smooth(@, it.cy)],
              at    |-> m]
        ELSE [lines |-> Append(st.lines, <<Member(it)>>),
              cys   |-> Append(st.cys, it.cy),
              at    |-> Len(st.lines) + 1]

\* " ".join(texts)
RECURSIVE JoinWith(_, _)
JoinWith(sep, texts) ==
    IF texts = <<>> THEN <<>>
    ELSE IF Len(texts) = 1 THEN texts[1]
    ELSE texts[1] \o sep \o JoinWith(sep, Tail(texts))

\* str.rstrip(): drop trailing whitespace.
Whitespace == {" ", "\n", "\t", "\r"}

RECURSIVE RStrip(_)
RStrip(s) ==
    IF s = <<>> THEN <<>>
    ELSE IF s[Len(s)] \in Whitespace THEN RStrip(SubSeq(s, 1, Len(s) - 1))
    ELSE s

\* A descending order on x1.
X1Geq(a, b) == a.x1 >= b.x1

X1Leq(a, b) == a.x1 <= b.x1

RECURSIVE InsertMember(_, _)
InsertMember(s, e) ==
    IF s = <<>> THEN <<e>>
    ELSE IF X1Leq(s[1], e) THEN <<s[1]>> \o InsertMember(Tail(s), e)
    ELSE <<e>> \o s

\* Line 121: line.sort(key=lambda t: t[0]), stable.
RECURSIVE SortLine(_)
SortLine(line) ==
    IF line = <<>> THEN <<>>
    ELSE InsertMember(SortLine(SubSeq(line, 1, Len(line) - 1)), line[Len(line)])

\* Lines 121-122: one output line.
LineString(line) ==
    LET sorted == SortLine(line)
    IN  RStrip(JoinWith(<<" ">>, [i \in 1..Len(sorted) |-> sorted[i].text]))

\* Lines 119-123.
OutLines(ls) == [i \in 1..Len(ls) |-> LineString(ls[i])]

\* Lines 104-117 as a fold over the sorted items.
RECURSIVE Cluster(_, _)
Cluster(its, tol) ==
    IF its = <<>> THEN [lines |-> <<>>, cys |-> <<>>, at |-> 0]
    ELSE PlaceItem(Cluster(SubSeq(its, 1, Len(its) - 1), tol), its[Len(its)], tol)

\* group_into_lines as a function of its arguments.
GroupIntoLines(results, tol) ==
    OutLines(Cluster(SortItems(MakeItems(results)), tol).lines)

-----------------------------------------------------------------------------
\* run_ocr and the functions it calls.

\* The files a caller can name.  cv2.imread returns None for a file that does
\* not decode; a decoded image is described by its size and the grey-level
\* statistics detect_theme reads.
Paths == {"a.png", "b.png", "bad.png"}

Imread(path) ==
    CASE path = "a.png" -> Some([src |-> path, w |-> 4, h |-> 2, mean |-> 30, std |-> 10])
      [] path = "b.png" -> Some([src |-> path, w |-> 2, h |-> 2, mean |-> 130, std |-> 20])
      [] OTHER -> None

\* OCRConfig: scale and min_conf in hundredths.  The five detector knobs keep
\* their defaults and only travel to the engine.
OCRConfig(scale, min_conf, use_allowlist) ==
    [lang |-> "en", gpu |-> FALSE, scale |-> scale, min_conf |-> min_conf,
     use_allowlist |-> use_allowlist]

\* detect_theme
DetectTheme(bgr) ==
    IF bgr.mean < 115 THEN "dark"
    ELSE IF bgr.mean > 165 THEN "light"
    ELSE IF bgr.mean < 140 /\ bgr.std > 45 THEN "dark" ELSE "light"

\* abs(scale - 1.0) > 1e-6, for a scale in hundredths.
ScaleDiffers(scale) == scale # 100

\* round(n * scale) for a scale in hundredths.
ScaledDim(n, scale) == (n * scale + 50) \div 100

\* cv2.resize(img, None, fx=scale, fy=scale): an error when a factor is not
\* positive or the destination size is empty.
ResizeFails(img, scale) ==
    scale <= 0 \/ ScaledDim(img.w, scale) = 0 \/ ScaledDim(img.h, scale) = 0

Resize(img, scale) ==
    [img EXCEPT !.w = ScaledDim(img.w, scale), !.h = ScaledDim(img.h, scale)]

\* y_tol = 18.0 * max(cfg.scale / 2.5, 0.6), times Den.
RunYTol(scale) ==
    LET a == 18 * scale * (Den \div 250)
        b == 108 * (Den \div 10)
    IN  IF a >= b THEN a ELSE b

\* A filter that drops a fragment whose confidence equals the threshold.
RECURSIVE FilterStrict(_, _)
FilterStrict(results, min_conf) ==
    IF results = <<>> THEN <<>>
    ELSE IF results[1].conf > min_conf
         THEN <<results[1]>> \o FilterStrict(Tail(results), min_conf)
         ELSE FilterStrict(Tail(results), min_conf)

\* Line 165: the confidence filter.
RECURSIVE Filter(_, _)
Filter(results, min_conf) ==
    IF results = <<>> THEN <<>>
    ELSE IF results[1].conf >= min_conf
         THEN <<results[1]>> \o Filter(Tail(results), min_conf)
         ELSE Filter(Tail(results), min_conf)

\* A digit as a character.
Digit(d) == <<"0", "1", "2", "3", "4", "5", "6", "7", "8", "9">>[d + 1]

\* f"{conf:.2f}" for a confidence in hundredths (0 <= conf).
Fmt2(conf) ==
    <<Digit(conf \div 100), ".", Digit((conf \div 10) % 10), Digit(conf % 10)>>

\* A re-check that also skips a fragment exactly at the threshold.
OverlaySkipsAtThreshold(conf, min_conf) == conf <= min_conf

\* Line 129: the re-check of draw_overlay; TRUE when the fragment is skipped.
OverlaySkips(conf, min_conf) == conf < min_conf

\* Lines 131-134: the rectangle and the label drawn for one fragment.
Box(frag) ==
    LET r == bbox_to_rect(frag.bbox)
    IN  [rect |-> r,
         label |-> frag.text \o <<" ", "(">> \o Fmt2(frag.conf) \o <<")">>,
         org |-> <<r.x1, IF r.y1 - 8 > 0 THEN r.y1 - 8 ELSE 0>>]

RECURSIVE Boxes(_, _)
Boxes(results, min_conf) ==
    IF results = <<>> THEN <<>>
    ELSE IF OverlaySkips(results[1].conf, min_conf)
         THEN Boxes(Tail(results), min_conf)
         ELSE <<Box(results[1])>> \o Boxes(Tail(results), min_conf)

\* draw_overlay: a copy of the scaled image with the boxes burned in.
DrawOverlay(bgr_scaled, results, min_conf) ==
    [img |-> bgr_scaled, boxes |-> Boxes(results, min_conf)]

\* A fresh activation of run_ocr(image_path, cfg).
NewFrame(path, cfg) ==
    [pc |-> "load_image", image_path |-> path, cfg |-> cfg,
     bgr |-> None, theme |-> None, prep |-> None, bgr_scaled |-> None,
     reader |-> None, kwargs |-> None, results |-> None, filtered |-> None,
     lines |-> None, clusters |-> None, overlay |-> None,
     stages |-> <<>>, engine_error |-> FALSE, out |-> None, raised |-> None]

\* No activation.
NoFrame == [NewFrame(None, None) EXCEPT !.pc = "idle"]

\* An exception leaves run_ocr: nothing in it catches one.
Raise(f, exc) == [f EXCEPT !.pc = "raised", !.raised = Some(exc)]

\* Stage `stage` is entered.
Enter(f, stage) == [f EXCEPT !.stages = Append(@, stage)]

\* Line 140 and load_image.
StLoadImage(f) ==
    LET g == Enter(f, "load_image")
        img == Imread(f.image_path)
    IN  IF img = None THEN Raise(g, "FileNotFoundError")
        ELSE [g EXCEPT !.bgr = img[1], !.pc = "detect_theme"]

\* Line 142.
StDetectTheme(f) ==
    [Enter(f, "detect_theme") EXCEPT !.theme = DetectTheme(f.bgr), !.pc = "preprocess"]

\* Line 143 and preprocess_for_screenshot: resize, then the grey pipeline.
StPreprocess(f) ==
    LET g == Enter(f, "preprocess")
    IN  IF ScaleDiffers(f.cfg.scale) /\ ResizeFails(f.bgr, f.cfg.scale)
        THEN Raise(g, "cv2.error")
        ELSE LET scaled == IF ScaleDiffers(f.cfg.scale)
                           THEN Resize(f.bgr, f.cfg.scale) ELSE f.bgr
             IN  [g EXCEPT !.prep = [src |-> scaled.src, w |-> scaled.w, h |-> scaled.h,
                                     gamma |-> (f.theme = "dark")],
                           !.pc = "resize"]

\* Lines 145-147.
StResize(f) ==
    LET g == Enter(f, "resize")
    IN  IF ScaleDiffers(f.cfg.scale) /\ ResizeFails(f.bgr, f.cfg.scale)
        THEN Raise(g, "cv2.error")
        ELSE [g EXCEPT !.bgr_scaled = IF ScaleDiffers(f.cfg.scale)
                                      THEN Resize(f.bgr, f.cfg.scale) ELSE f.bgr,
                       !.pc = "reader"]

\* Lines 149-161: the engine's constructor, which may raise, and the kwargs.
StReader(f, ok) ==
    LET g == Enter(f, "reader")
    IN  IF ~ok THEN [Raise(g, "EngineError") EXCEPT !.engine_error = TRUE]
        ELSE [g EXCEPT !.reader = [lang |-> f.cfg.lang, gpu |-> f.cfg.gpu],
                       !.kwargs = [detail |-> 1, paragraph |-> FALSE,
                                   allowlist |-> f.cfg.use_allowlist],
                       !.pc = "readtext"]

\* A readtext call wrapped in a handler that turns the engine's error into an
\* empty fragment list.
StReadTextSwallow(f, answer) ==
    LET g == Enter(f, "readtext")
    IN  [g EXCEPT !.results = IF answer = None THEN <<>> ELSE answer[1],
                  !.engine_error = (answer = None),
                  !.pc = "filter"]

\* Line 163: the engine returns a fragment list (Some(list)) or raises (None).
\* engine_error is a ghost flag: the engine raised in this activation.
StReadText(f, answer) ==
    LET g == Enter(f, "readtext")
    IN  IF answer = None
        THEN [Raise(g, "EngineError") EXCEPT !.engine_error = TRUE]
        ELSE [g EXCEPT !.results = answer[1], !.pc = "filter"]

\* Line 165.
StFilter(f) ==
    [Enter(f, "filter") EXCEPT !.filtered = Filter(f.results, f.cfg.min_conf),
                               !.pc = "group_into_lines"]

\* Lines 167-168.  clusters is a ghost copy of the clusters behind the lines.
StGroup(f) ==
    LET tol == RunYTol(f.cfg.scale)
    IN  [Enter(f, "group_into_lines") EXCEPT
            !.lines = GroupIntoLines(f.filtered, tol),
            !.clusters = Cluster(SortItems(MakeItems(f.filtered)), tol).lines,
            !.pc = "draw_overlay"]

\* Line 170.
StDrawOverlay(f) ==
    [Enter(f, "draw_overlay") EXCEPT
        !.overlay = DrawOverlay(f.bgr_scaled, f.filtered, f.cfg.min_conf),
        !.pc = "return"]

\* Lines 172-178.
StReturn(f) ==
    [f EXCEPT !.out = Some([theme |-> f.theme, lines |-> f.lines,
                            results |-> f.filtered, overlay_bgr |-> f.overlay,
                            bgr_scaled |-> f.bgr_scaled]),
              !.pc = "returned"]

-----------------------------------------------------------------------------
\* The file system and the three export functions.

\* A path is its sequence of components, relative to the working directory,
\* which exists.  A node of the file system is absent, a directory or a file.
Absent == [kind |-> "absent"]
Dir == [kind |-> "dir"]
File(data) == [kind |-> "file", data |-> data]

\* The paths of the model.
Nodes == {<<"out">>, <<"r.txt">>, <<"r.png">>, <<"out", "r.txt">>, <<"out", "r.png">>}

EmptyFs == [p \in Nodes |-> Absent]

\* Path.parent
Parent(p) == SubSeq(p, 1, Len(p) - 1)

\* The proper, non-empty prefixes of p: the directories p lies in.
Ancestors(p) == {SubSeq(p, 1, n) : n \in 1..(Len(p) - 1)}

\* Path.mkdir(parents=True, exist_ok=True) on Parent(p): FileExistsError (or
\* NotADirectoryError) when a component exists and is a file.
MkdirFails(f, p) == \E a \in Ancestors(p) : f[a].kind = "file"

MkdirParents(f, p) == [q \in Nodes |-> IF q \in Ancestors(p) THEN Dir ELSE f[q]]

\* open(path, "w") fails when the path is a directory, or when the system
\* denies it (permissions, read-only medium): `denied` is the environment's.
OpenFails(f, p, denied) == denied \/ f[p].kind = "dir"

\* A file opened in append mode.
WriteAppend(old, data) ==
    IF old.kind = "file" THEN File(old.data \o data) ELSE File(data)

\* Mode "w" truncates: the file holds the data written and nothing else.
WriteFile(old, data) == File(data)

\* Line 184: "\n".join(lines) + "\n".
TxtContent(lns) == JoinWith(<<"\n">>, lns) \o <<"\n">>

\* str(i) for i >= 0.
RECURSIVE IntToStr(_)
IntToStr(i) ==
    IF i < 10 THEN <<Digit(i)>> ELSE IntToStr(i \div 10) \o <<Digit(i % 10)>>

RECURSIVE DoubleQuotes(_)
DoubleQuotes(t) ==
    IF t = <<>> THEN <<>>
    ELSE (IF t[1] = "\"" THEN <<"\"", "\"">> ELSE <<t[1]>>) \o DoubleQuotes(Tail(t))

\* A writer that never quotes.
CsvFieldRaw(t) == t

\* csv.writer, excel dialect, QUOTE_MINIMAL: a field holding the delimiter,
\* the quote character or a line-terminator character is quoted, its quotes
\* doubled.
CsvField(t) ==
    IF \E i \in 1..Len(t) : t[i] \in {",", "\"", "\r", "\n"}
    THEN <<"\"">> \o DoubleQuotes(t) \o <<"\"">>
    ELSE t

\* writerow: fields joined by commas, ended by "\r\n".
CsvRow(fields) ==
    JoinWith(<<",">>, [i \in 1..Len(fields) |-> CsvField(fields[i])]) \o <<"\r", "\n">>

RECURSIVE Concat(_)
Concat(ss) == IF ss = <<>> THEN <<>> ELSE ss[1] \o Concat(Tail(ss))

CsvHeader == << <<"l", "i", "n", "e", "_", "n", "o">>, <<"t", "e", "x", "t">> >>

\* Lines 192-196.
CsvContent(lns) ==
    CsvRow(CsvHeader) \o Concat([i \in 1..Len(lns) |-> CsvRow(<<IntToStr(i), lns[i]>>)])

\* cv2.imwrite encodes losslessly; the file is described by what it decodes to.
PngContent(overlay) == <<[format |-> "png", pixels |-> overlay]>>

\* cv2.imwrite infers the format from the extension and raises when it
\* knows no writer for it.
HasImageExt(p) == p[Len(p)] \in {"r.png"}

\* The result of an export call: the file system after it, whether the call
\* returned normally or raised, and whether the file was written.
Outcome(f, how, written) == [fs |-> f, how |-> how, written |-> written]

\* export_txt, lines 181-185.
ExportTxtOn(f, p, lns, denied) ==
    IF MkdirFails(f, p) THEN Outcome(f, "raised", FALSE)
    ELSE LET g == MkdirParents(f, p)
         IN  IF OpenFails(g, p, denied) THEN Outcome(g, "raised", FALSE)
             ELSE Outcome([g EXCEPT ![p] = WriteFile(@, TxtContent(lns))],
                          "returned", TRUE)

\* export_csv, lines 188-197.
ExportCsvOn(f, p, lns, denied) ==
    IF MkdirFails(f, p) THEN Outcome(f, "raised", FALSE)
    ELSE LET g == MkdirParents(f, p)
         IN  IF OpenFails(g, p, denied) THEN Outcome(g, "raised", FALSE)
             ELSE Outcome([g EXCEPT ![p] = WriteFile(@, CsvContent(lns))],
                          "returned", TRUE)

\* export_overlay_png, lines 200-204.  cv2.imwrite reports a file it could
\* not write by returning False; line 203 drops the value.
ExportOverlayPngOn(f, p, overlay, denied) ==
    IF MkdirFails(f, p) THEN Outcome(f, "raised", FALSE)
    ELSE LET g == MkdirParents(f, p)
         IN  IF ~HasImageExt(p) THEN Outcome(g, "raised", FALSE)
             ELSE IF OpenFails(g, p, denied) THEN Outcome(g, "returned", FALSE)
             ELSE Outcome([g EXCEPT ![p] = WriteFile(@, PngContent(overlay))],
                          "returned", TRUE)

-----------------------------------------------------------------------------
\* The parts of the state a specification does not use stay as constructed.

GroupIdle ==
    /\ results_in = <<>>
    /\ y_tol = 0
    /\ items = <<>>
    /\ k = 0
    /\ lines = <<>>
    /\ line_cys = <<>>
    /\ out_lines = <<>>
    /\ gpc = "idle"
    /\ placed_at = 0

RunIdle == frame = NoFrame

\* App.__init__, lines 144-150, 165-171, 221, 230.
GuiIdle ==
    /\ image_path = None
    /\ last_lines = None
    /\ last_overlay_bgr = None
    /\ btn_run = "normal"
    /\ btn_export = "disabled"
    /\ status = "Status: Idle"
    /\ dialog = "none"
    /\ running = FALSE
    /\ wpc = [at |-> "none", cfg |-> None]
    /\ after_q = <<>>

ExportIdle ==
    /\ fs = EmptyFs
    /\ last_export = None

-----------------------------------------------------------------------------
\* SpecRun: run_ocr called with every small image path and configuration, one
\* stage per step; the engine answers with every small fragment list or raises.

RunRows == {<<10, 30>>, <<60, 80>>}
RunTexts == {<<"h", "i">>, <<"y", "o">>}
RunConfs == {10, 20, 90}

EngineFragments ==
    {Fragment(Quad(0, r[1], 40, r[2]), t, c) :
        r \in RunRows, t \in RunTexts, c \in RunConfs}

\* What readtext can answer: a fragment list, or an exception.
EngineAnswers == {Some(l) : l \in SeqsUpTo(EngineFragments, MaxFrags)} \cup {None}

RunScales == {250, 100, 0, -100}
RunMinConfs == {20, 50}

RunInit ==
    /\ \E p \in Paths, sc \in RunScales, mc \in RunMinConfs, al \in BOOLEAN :
           frame = NewFrame(p, OCRConfig(sc, mc, al))
    /\ GroupIdle /\ GuiIdle /\ ExportIdle

LoadImage ==
    /\ frame.pc = "load_image"
    /\ frame' = StLoadImage(frame)
    /\ UNCHANGED <<gvars, uvars, evars>>

DetectThemeStage ==
    /\ frame.pc = "detect_theme"
    /\ frame' = StDetectTheme(frame)
    /\ UNCHANGED <<gvars, uvars, evars>>

PreprocessStage ==
    /\ frame.pc = "preprocess"
    /\ frame' = StPreprocess(frame)
    /\ UNCHANGED <<gvars, uvars, evars>>

ResizeStage ==
    /\ frame.pc = "resize"
    /\ frame' = StResize(frame)
    /\ UNCHANGED <<gvars, uvars, evars>>

ReaderStage ==
    /\ frame.pc = "reader"
    /\ \E ok \in BOOLEAN : frame' = StReader(frame, ok)
    /\ UNCHANGED <<gvars, uvars, evars>>

ReadText(answers) ==
    /\ frame.pc = "readtext"
    /\ \E a \in answers : frame' = StReadText(frame, a)
    /\ UNCHANGED <<gvars, uvars, evars>>

RunReadText == ReadText(EngineAnswers)

FilterStage ==
    /\ frame.pc = "filter"
    /\ frame' = StFilter(frame)
    /\ UNCHANGED <<gvars, uvars, evars>>

GroupStage ==
    /\ frame.pc = "group_into_lines"
    /\ frame' = StGroup(frame)
    /\ UNCHANGED <<gvars, uvars, evars>>

DrawOverlayStage ==
    /\ frame.pc = "draw_overlay"
    /\ frame' = StDrawOverlay(frame)
    /\ UNCHANGED <<gvars, uvars, evars>>

ReturnStage ==
    /\ frame.pc = "return"
    /\ frame' = StReturn(frame)
    /\ UNCHANGED <<gvars, uvars, evars>>

RunNext ==
    \/ LoadImage
    \/ DetectThemeStage
    \/ PreprocessStage
    \/ ResizeStage
    \/ ReaderStage
    \/ RunReadText
    \/ FilterStage
    \/ GroupStage
    \/ DrawOverlayStage
    \/ ReturnStage

SpecRun == RunInit /\ [][RunNext]_vars

-----------------------------------------------------------------------------
\* Properties of run_ocr.

\* The strictly increasing maps from 1..n into 1..m.
Increasing(n, m) ==
    {f \in [1..n -> 1..m] : \A a, b \in 1..n : a < b => f[a] < f[b]}

\* C1: in every result returned by run_ocr, `results` is the order-preserved
\* subsequence of the engine's fragments with confidence >= min_conf: all
\* retained fragments meet the threshold, every engine fragment meeting it
\* (equality included) is retained, order is kept, and the count is exact.
C1_FilterExact ==
    frame.pc = "returned" =>
        LET eng == frame.results
            res == frame.out[1].results
            mc == frame.cfg.min_conf
            keep == {i \in 1..Len(eng) : eng[i].conf >= mc}
        IN  /\ \A j \in 1..Len(res) : res[j].conf >= mc
            /\ Len(res) = Cardinality(keep)
            /\ \E f \in Increasing(Len(res), Len(eng)) :
                   /\ {f[j] : j \in 1..Len(res)} = keep
                   /\ \A j \in 1..Len(res) : res[j] = eng[f[j]]

\* C1's case: a result in which a fragment exactly at the threshold was
\* retained and a fragment below it was dropped, out of three.
C1_Witness ==
    /\ frame.pc = "returned"
    /\ Len(frame.results) = 3
    /\ frame.results[1].conf < frame.cfg.min_conf
    /\ frame.results[2].conf = frame.cfg.min_conf
    /\ Len(frame.out[1].results) = 2

\* The stages of a complete run, in order.
AllStages ==
    <<"load_image", "detect_theme", "preprocess", "resize", "reader", "readtext",
      "filter", "group_into_lines", "draw_overlay">>

\* C4: run_ocr is all-or-nothing.  A run that has ended either returned
\* after all stages completed, with theme, lines, results and overlay, or
\* raised with no result; there is never a result without a return; a path
\* that does not decode raises before any stage after the load is entered;
\* an engine error reaches the caller as it is, with no result in its place;
\* and a run that has not ended is at a stage that is still to be entered,
\* having entered exactly the stages before it.
C4_AllOrNothing ==
    /\ frame.pc = "returned" =>
           /\ frame.stages = AllStages
           /\ frame.raised = None
           /\ frame.out # None
           /\ frame.out[1].theme \in {"dark", "light"}
           /\ frame.out[1].lines = frame.lines
           /\ frame.out[1].results = frame.filtered
           /\ frame.out[1].overlay_bgr = frame.overlay
    /\ frame.pc = "raised" => frame.out = None /\ frame.raised # None
    /\ frame.out # None => frame.pc = "returned"
    /\ (Imread(frame.image_path) = None /\ frame.stages # <<>>) =>
           /\ frame.pc = "raised"
           /\ frame.raised = Some("FileNotFoundError")
           /\ frame.stages = <<"load_image">>
    /\ frame.engine_error =>
           /\ frame.pc = "raised"
           /\ frame.raised = Some("EngineError")
           /\ frame.out = None
    /\ frame.pc \notin {"returned", "raised", "return"} =>
           \E n \in 1..Len(AllStages) :
               /\ frame.pc = AllStages[n]
               /\ frame.stages = SubSeq(AllStages, 1, n - 1)

\* C4's case: the engine raised in readtext and the run ended with its error.
C4_Witness ==
    /\ frame.pc = "raised"
    /\ frame.engine_error
    /\ frame.stages[Len(frame.stages)] = "readtext"

\* The number of characters of s that are not a space.
RECURSIVE Inked(_)
Inked(s) ==
    IF s = <<>> THEN 0
    ELSE (IF s[1] = " " THEN 0 ELSE 1) + Inked(Tail(s))

RECURSIVE SumLen(_)
SumLen(ss) == IF ss = <<>> THEN 0 ELSE Len(ss[1]) + SumLen(Tail(ss))

RECURSIVE SumInked(_)
SumInked(ss) == IF ss = <<>> THEN 0 ELSE Inked(ss[1]) + SumInked(Tail(ss))

\* C9: in every returned result the three outputs describe the same
\* fragments.  The overlay has one box per fragment of `results`, in order,
\* with that fragment's rectangle and label; every fragment of `results` is
\* a member of exactly one line's cluster and the lines hold exactly the
\* fragments' characters; a dropped fragment has no box; no line is built
\* from zero fragments; an empty `results` gives no line and no box.
C9_OutputsAgree ==
    frame.pc = "returned" =>
        LET res == frame.out[1].results
            bxs == frame.out[1].overlay_bgr.boxes
            lns == frame.out[1].lines
            cl == frame.clusters
        IN  /\ Len(bxs) = Len(res)
            /\ \A i \in 1..Len(res) :
                   /\ bxs[i].rect = bbox_to_rect(res[i].bbox)
                   /\ SubSeq(bxs[i].label, 1, Len(res[i].text)) = res[i].text
            /\ Len(lns) = Len(cl)
            /\ \A i \in 1..Len(res) :
                   Cardinality({<<c, m>> \in (1..Len(cl)) \X (1..MaxFrags) :
                                    m <= Len(cl[c]) /\ cl[c][m].id = i}) = 1
            /\ SumInked(lns) = SumLen([i \in 1..Len(res) |-> res[i].text])
            /\ \A c \in 1..Len(cl) : Len(cl[c]) >= 1 /\ lns[c] # <<>>
            /\ \A e \in 1..Len(frame.results) :
                   frame.results[e].conf < frame.cfg.min_conf =>
                       \A b \in 1..Len(bxs) :
                           bxs[b].label # Box(frame.results[e]).label
            /\ res = <<>> => lns = <<>> /\ bxs = <<>>

\* C9's case: a result with a fragment exactly at the threshold kept (and
\* boxed), another dropped, and two lines.
C9_Witness ==
    /\ frame.pc = "returned"
    /\ Len(frame.results) = 3
    /\ \E i \in 1..3 : frame.results[i].conf < frame.cfg.min_conf
    /\ \E i \in 1..Len(frame.out[1].results) :
           frame.out[1].results[i].conf = frame.cfg.min_conf
    /\ Len(frame.out[1].lines) = 2
    /\ Len(frame.out[1].overlay_bgr.boxes) = 2

-----------------------------------------------------------------------------
\* The GUI: App.pick_image, App.run_clicked, its worker thread and the
\* callbacks the worker schedules.  Widgets that only display (preview,
\* textbox, summary label, progress bar, timer) are left out.

LStripWs(s) ==
    LET ink == {i \in 1..Len(s) : s[i] \notin Whitespace}
    IN  IF ink = {} THEN <<>> ELSE SubSeq(s, Min(ink), Len(s))

\* str.strip()
Strip(s) == LStripWs(RStrip(s))

DigitChars == {Digit(d) : d \in 0..9}
DigitVal(c) == CHOOSE d \in 0..9 : Digit(d) = c

RECURSIVE IntVal(_)
IntVal(s) ==
    IF s = <<>> THEN 0
    ELSE 10 * IntVal(SubSeq(s, 1, Len(s) - 1)) + DigitVal(s[Len(s)])

\* float(text): Some(value in hundredths), or None for a ValueError.  The
\* grammar covered is [sign] digits [. digits] with at least one digit and
\* at most two decimals; exponents, inf and nan are outside the texts tried.
\* No range is checked: float() accepts zero and negative numbers.
ParseFloat(text) ==
    LET signed == text # <<>> /\ text[1] \in {"-", "+"}
        body == IF signed THEN Tail(text) ELSE text
        dots == {i \in 1..Len(body) : body[i] = "."}
        d == IF dots = {} THEN Len(body) + 1 ELSE Min(dots)
        ip == SubSeq(body, 1, d - 1)
        fp == SubSeq(body, d + 1, Len(body))
        ok == /\ Cardinality(dots) <= 1
              /\ \A i \in 1..Len(ip) : ip[i] \in DigitChars
              /\ \A i \in 1..Len(fp) : fp[i] \in DigitChars
              /\ Len(ip) + Len(fp) >= 1
              /\ Len(fp) <= 2
        frac == IF Len(fp) = 1 THEN 10 * IntVal(fp) ELSE IntVal(fp)
        mag == 100 * IntVal(ip) + frac
    IN  IF ~ok THEN None
        ELSE Some(IF signed /\ text[1] = "-" THEN -mag ELSE mag)

\* What the two entries may hold when Run OCR is clicked.
ScaleTexts ==
    {<<"2", ".", "5">>, <<"0">>, <<"-", "1">>, <<"x">>}
MinConfTexts ==
    {<<"0", ".", "5">>, <<" ", "0", ".", "2", " ">>, <<>>}

\* What the engine answers in the GUI runs.
GuiEngineAnswers ==
    {None,
     Some(<<>>),
     Some(<<Fragment(Quad(0, 10, 40, 30), <<"h", "i">>, 90),
            Fragment(Quad(0, 60, 40, 80), <<"y", "o">>, 20)>>)}

GuiInit == GroupIdle /\ RunIdle /\ GuiIdle /\ ExportIdle

\* pick_image, lines 253-275.  The dialog gives a path; PIL's Image.open
\* raises for a file that does not decode, which ends the handler at line 268.
PickImage ==
    \E path \in Paths :
        /\ image_path' = Some(path)
        /\ last_overlay_bgr' = None
        /\ last_lines' = None
        /\ IF Imread(path) = None
           THEN UNCHANGED <<btn_export, status>>
           ELSE /\ btn_export' = "disabled"
                /\ status' = "Status: Ready (image loaded)"
        /\ UNCHANGED <<btn_run, dialog, running, wpc, after_q, gvars, rvars, evars>>

\* pick_image when the dialog is cancelled, lines 258-259.
PickCancelled ==
    UNCHANGED vars

\* run_clicked, lines 312-335 and 384.  A disabled button runs no command.
RunClicked ==
    /\ btn_run = "normal"
    /\ \E st \in ScaleTexts, mt \in MinConfTexts :
        LET scale == ParseFloat(Strip(st))
            min_conf == ParseFloat(Strip(mt))
        IN  IF image_path = None
            THEN /\ dialog' = "No image"
                 /\ UNCHANGED <<btn_run, btn_export, status, running, wpc>>
            ELSE IF scale = None \/ min_conf = None
            THEN /\ dialog' = "Invalid settings"
                 /\ UNCHANGED <<btn_run, btn_export, status, running, wpc>>
            ELSE /\ status' = "Status: Running OCR..."
                 /\ btn_run' = "disabled"
                 /\ btn_export' = "disabled"
                 /\ running' = TRUE
                 /\ wpc' = [at |-> "call",
                            cfg |-> Some(OCRConfig(scale[1], min_conf[1], TRUE))]
                 /\ UNCHANGED dialog
    /\ UNCHANGED <<image_path, last_lines, last_overlay_bgr, after_q, gvars, rvars, evars>>

\* worker, line 339: run_ocr is called with self.image_path as it is now.
WorkerCall ==
    /\ wpc.at = "call"
    /\ frame' = NewFrame(image_path[1], wpc.cfg[1])
    /\ wpc' = [wpc EXCEPT !.at = "run_ocr"]
    /\ UNCHANGED <<image_path, last_lines, last_overlay_bgr, btn_run, btn_export,
                   status, dialog, running, after_q, gvars, evars>>

GuiReadText == ReadText(GuiEngineAnswers)

\* worker, line 350.
WorkerStoreLines ==
    /\ wpc.at = "run_ocr"
    /\ frame.pc = "returned"
    /\ last_lines' = Some(frame.out[1].lines)
    /\ wpc' = [wpc EXCEPT !.at = "store_overlay"]
    /\ UNCHANGED <<image_path, last_overlay_bgr, btn_run, btn_export, status, dialog,
                   running, after_q, gvars, rvars, evars>>

\* worker, line 351.
WorkerStoreOverlay ==
    /\ wpc.at = "store_overlay"
    /\ last_overlay_bgr' = Some(frame.out[1].overlay_bgr)
    /\ wpc' = [wpc EXCEPT !.at = "schedule"]
    /\ UNCHANGED <<image_path, last_lines, btn_run, btn_export, status, dialog,
                   running, after_q, gvars, rvars, evars>>

\* worker, line 371: self.after(0, ui_update); the thread ends.
WorkerSchedule ==
    /\ wpc.at = "schedule"
    /\ after_q' = Append(after_q, "ui_update")
    /\ wpc' = [at |-> "none", cfg |-> None]
    /\ UNCHANGED <<image_path, last_lines, last_overlay_bgr, btn_run, btn_export,
                   status, dialog, running, gvars, rvars, evars>>

\* worker, lines 373-382: any exception schedules ui_err; the thread ends.
WorkerExcept ==
    /\ wpc.at = "run_ocr"
    /\ frame.pc = "raised"
    /\ after_q' = Append(after_q, "ui_err")
    /\ wpc' = [at |-> "none", cfg |-> None]
    /\ UNCHANGED <<image_path, last_lines, last_overlay_bgr, btn_run, btn_export,
                   status, dialog, running, gvars, rvars, evars>>

\* ui_update, lines 357-369, on the main thread.
UiUpdate ==
    /\ after_q # <<>>
    /\ after_q[1] = "ui_update"
    /\ after_q' = Tail(after_q)
    /\ running' = FALSE
    /\ status' = "Status: Done"
    /\ btn_run' = "normal"
    /\ btn_export' = "normal"
    /\ UNCHANGED <<image_path, last_lines, last_overlay_bgr, dialog, wpc,
                   gvars, rvars, evars>>

\* ui_err, lines 376-380, on the main thread.
UiErr ==
    /\ after_q # <<>>
    /\ after_q[1] = "ui_err"
    /\ after_q' = Tail(after_q)
    /\ running' = FALSE
    /\ status' = "Status: Error"
    /\ btn_run' = "normal"
    /\ dialog' = "Error"
    /\ UNCHANGED <<image_path, last_lines, last_overlay_bgr, btn_export, wpc,
                   gvars, rvars, evars>>

GuiNext ==
    \/ PickImage
    \/ PickCancelled
    \/ RunClicked
    \/ WorkerCall
    \/ LoadImage
    \/ DetectThemeStage
    \/ PreprocessStage
    \/ ResizeStage
    \/ ReaderStage
    \/ GuiReadText
    \/ FilterStage
    \/ GroupStage
    \/ DrawOverlayStage
    \/ ReturnStage
    \/ WorkerStoreLines
    \/ WorkerStoreOverlay
    \/ WorkerSchedule
    \/ WorkerExcept
    \/ UiUpdate
    \/ UiErr

SpecGui == GuiInit /\ [][GuiNext]_vars

\* C5: a run requested with a non-numeric or out-of-domain scale or min_conf
\* is rejected before the pipeline runs; for scale <= 0 no stage of run_ocr
\* (image load, preprocess, recognition) is ever entered.
C5_RejectedAtBoundary ==
    (frame.pc # "idle" /\ frame.cfg.scale <= 0) => frame.stages = <<>>

\* C12: whenever the export buttons are enabled, or last_lines or
\* last_overlay_bgr is set, the stored lines and overlay are the result of an
\* OCR run on the image now selected (so choosing a new image discards the
\* result of the previous or in-flight run and export stays disabled until a
\* run on the new image completes); and no second worker can be started while
\* one is in flight.  The overlay is drawn on the image it was computed from
\* (img.src); the lines stored are checked against the call of run_ocr that
\* has last returned.
C12_ResultOfSelectedImage ==
    /\ btn_export = "normal" =>
           /\ image_path # None
           /\ last_lines # None
           /\ last_overlay_bgr # None
    /\ last_overlay_bgr # None =>
           /\ image_path # None
           /\ last_overlay_bgr[1].img.src = image_path[1]
    /\ (last_lines # None /\ frame.pc = "returned") =>
           /\ image_path # None
           /\ frame.image_path = image_path[1]
    /\ wpc.at # "none" => btn_run = "disabled"

-----------------------------------------------------------------------------
\* SpecExport: one export call and its repetitions, on every small file
\* system, made directly or through the GUI's export buttons.

\* The line strings tried: empty, plain, needing CSV quotes, with a line break.
LineTexts == {<<>>, <<"a">>, <<",", "\"">>, <<"a", "\n">>}
LineLists == SeqsUpTo(LineTexts, MaxLines)

\* Content a file may hold before any export.
Junk == <<"j">>

\* The file systems to start from: every node absent, a directory (out) or a
\* file with old content, the entries under out only when out is a directory.
InitialFs ==
    {f \in [Nodes -> {Absent, Dir, File(Junk)}] :
        /\ \A p \in Nodes : f[p] = Dir => p = <<"out">>
        /\ \A p \in Nodes : (Len(p) = 2 /\ f[p] # Absent) => f[<<"out">>] = Dir}

\* What a completed GUI run on a.png at scale 2.5 leaves in the App.
GuiStateAfter(answer, min_conf) ==
    LET kept == Filter(answer, min_conf)
    IN  [image_path |-> Some("a.png"),
         last_lines |-> Some(GroupIntoLines(kept, RunYTol(250))),
         last_overlay_bgr |-> Some(DrawOverlay(Resize(Imread("a.png")[1], 250),
                                               kept, min_conf)),
         btn_export |-> "normal",
         status |-> "Status: Done"]

GuiStates ==
    {[image_path |-> None, last_lines |-> None, last_overlay_bgr |-> None,
      btn_export |-> "disabled", status |-> "Status: Idle"]}
    \cup {GuiStateAfter(a[1], 20) : a \in GuiEngineAnswers \ {None}}

ExportOverlays == {g.last_overlay_bgr[1] : g \in {h \in GuiStates : h.image_path # None}}

ExportInit ==
    /\ fs \in InitialFs
    /\ last_export = None
    /\ \E g \in GuiStates :
        /\ image_path = g.image_path
        /\ last_lines = g.last_lines
        /\ last_overlay_bgr = g.last_overlay_bgr
        /\ btn_export = g.btn_export
        /\ status = g.status
    /\ btn_run = "normal"
    /\ dialog = "none"
    /\ running = FALSE
    /\ wpc = [at |-> "none", cfg |-> None]
    /\ after_q = <<>>
    /\ GroupIdle /\ RunIdle

\* The call is the first one, or repeats the last one.
CanCall(op, p, arg) ==
    IF last_export = None THEN TRUE
    ELSE /\ last_export[1].nth < MaxCalls
         /\ last_export[1].op = op
         /\ last_export[1].path = p
         /\ last_export[1].arg = arg

\* The call and its result, for the properties.
Recorded(op, p, arg, res) ==
    Some([op |-> op, path |-> p, arg |-> arg, how |-> res.how,
          written |-> res.written,
          before |-> IF last_export = None THEN fs ELSE last_export[1].before,
          nth |-> IF last_export = None THEN 1 ELSE last_export[1].nth + 1])

Export(op, p, arg, res) ==
    /\ CanCall(op, p, arg)
    /\ fs' = res.fs
    /\ last_export' = Recorded(op, p, arg, res)

\* export_txt(txt_path, lines)
ExportTxt ==
    /\ \E p \in Nodes, l \in LineLists, denied \in BOOLEAN :
           Export("export_txt", p, l, ExportTxtOn(fs, p, l, denied))
    /\ UNCHANGED <<gvars, rvars, uvars>>

\* export_csv(csv_path, lines)
ExportCsv ==
    /\ \E p \in Nodes, l \in LineLists, denied \in BOOLEAN :
           Export("export_csv", p, l, ExportCsvOn(fs, p, l, denied))
    /\ UNCHANGED <<gvars, rvars, uvars>>

\* export_overlay_png(png_path, overlay_bgr)
ExportOverlayPng ==
    /\ \E p \in Nodes, o \in ExportOverlays, denied \in BOOLEAN :
           Export("export_overlay_png", p, o, ExportOverlayPngOn(fs, p, o, denied))
    /\ UNCHANGED <<gvars, rvars, uvars>>

GuiUnchangedByExport ==
    UNCHANGED <<image_path, last_lines, last_overlay_bgr, btn_run, btn_export,
                dialog, running, wpc, after_q, gvars, rvars>>

\* App.export_overlay, lines 386-399: the status line is set when the call
\* returns; an exception leaves the handler before it.
ExportOverlayClicked ==
    /\ btn_export = "normal"
    /\ ~(last_overlay_bgr = None \/ image_path = None)
    /\ \E p \in Nodes, denied \in BOOLEAN :
        LET res == ExportOverlayPngOn(fs, p, last_overlay_bgr[1], denied)
        IN  /\ Export("export_overlay_png", p, last_overlay_bgr[1], res)
            /\ status' = IF res.how = "returned"
                         THEN "Status: Saved overlay PNG" ELSE status
    /\ GuiUnchangedByExport

\* App.export_txt_file, lines 401-414.
ExportTxtClicked ==
    /\ btn_export = "normal"
    /\ ~(last_lines = None \/ last_lines = Some(<<>>) \/ image_path = None)
    /\ \E p \in Nodes, denied \in BOOLEAN :
        LET res == ExportTxtOn(fs, p, last_lines[1], denied)
        IN  /\ Export("export_txt", p, last_lines[1], res)
            /\ status' = IF res.how = "returned" THEN "Status: Saved TXT" ELSE status
    /\ GuiUnchangedByExport

\* App.export_csv_file, lines 416-429.
ExportCsvClicked ==
    /\ btn_export = "normal"
    /\ ~(last_lines = None \/ last_lines = Some(<<>>) \/ image_path = None)
    /\ \E p \in Nodes, denied \in BOOLEAN :
        LET res == ExportCsvOn(fs, p, last_lines[1], denied)
        IN  /\ Export("export_csv", p, last_lines[1], res)
            /\ status' = IF res.how = "returned" THEN "Status: Saved CSV" ELSE status
    /\ GuiUnchangedByExport

ExportNext ==
    \/ ExportTxt
    \/ ExportCsv
    \/ ExportOverlayPng
    \/ ExportOverlayClicked
    \/ ExportTxtClicked
    \/ ExportCsvClicked

SpecExport == ExportInit /\ [][ExportNext]_vars

-----------------------------------------------------------------------------
\* Properties of the export functions (SpecExport).

\* What the call was asked to put in the file.
ExportedContent(op, arg) ==
    IF op = "export_txt" THEN TxtContent(arg)
    ELSE IF op = "export_csv" THEN CsvContent(arg)
    ELSE PngContent(arg)

SavedStatuses ==
    {"Status: Saved overlay PNG", "Status: Saved TXT", "Status: Saved CSV"}

\* C6: an export that could not write its file does not return normally, so
\* after a normal return, and whenever the GUI shows a "Saved ..." status, the
\* destination is a file holding the exported content.
C6_FailedWriteSurfaced ==
    /\ (last_export # None /\ last_export[1].how = "returned")
           => fs[last_export[1].path]
                  = File(ExportedContent(last_export[1].op, last_export[1].arg))
    /\ status \in SavedStatuses
           => /\ last_export # None
              /\ fs[last_export[1].path]
                     = File(ExportedContent(last_export[1].op, last_export[1].arg))

\* Reading a text file back: the content without its final newline, split at
\* every newline.
RECURSIVE SplitLines(_, _)
SplitLines(s, cur) ==
    IF s = <<>> THEN <<cur>>
    ELSE IF s[1] = "\n" THEN <<cur>> \o SplitLines(Tail(s), <<>>)
    ELSE SplitLines(Tail(s), Append(cur, s[1]))

ReadTxt(data) ==
    IF data # <<>> /\ data[Len(data)] = "\n"
    THEN SplitLines(SubSeq(data, 1, Len(data) - 1), <<>>)
    ELSE SplitLines(data, <<>>)

\* Reading a CSV file back as csv.reader (excel dialect) does: the rows, each
\* a sequence of fields.  mode: "row" at the start of a row, "start" at the
\* start of a field, "in" inside an unquoted field, "quoted" inside a quoted
\* one, "qq" after a quote inside a quoted field, "eat" after a "\r" that
\* ended a row.
RECURSIVE ParseCsv(_, _, _, _, _)
ParseCsv(s, mode, field, row, rows) ==
    IF s = <<>>
    THEN IF mode \in {"row", "eat"} THEN rows ELSE Append(rows, Append(row, field))
    ELSE
    LET c == s[1]
        rest == Tail(s)
        EndRow == ParseCsv(rest, IF c = "\r" THEN "eat" ELSE "row", <<>>, <<>>,
                           Append(rows, Append(row, field)))
        EndField == ParseCsv(rest, "start", <<>>, Append(row, field), rows)
    IN  CASE mode = "eat" ->
                 IF c = "\n" THEN ParseCsv(rest, "row", <<>>, <<>>, rows)
                 ELSE ParseCsv(s, "row", <<>>, <<>>, rows)
          [] mode = "row" /\ c \in {"\r", "\n"} ->
                 ParseCsv(rest, IF c = "\r" THEN "eat" ELSE "row", <<>>, <<>>,
                          Append(rows, <<>>))
          [] mode \in {"row", "start"} /\ c = "\"" ->
                 ParseCsv(rest, "quoted", field, row, rows)
          [] mode = "quoted" ->
                 IF c = "\"" THEN ParseCsv(rest, "qq", field, row, rows)
                 ELSE ParseCsv(rest, "quoted", Append(field, c), row, rows)
          [] mode = "qq" /\ c = "\"" ->
                 ParseCsv(rest, "quoted", Append(field, c), row, rows)
          [] OTHER ->
                 IF c = "," THEN EndField
                 ELSE IF c \in {"\r", "\n"} THEN EndRow
                 ELSE ParseCsv(rest, "in", Append(field, c), row, rows)

ReadCsv(data) == ParseCsv(data, "row", <<>>, <<>>, <<>>)

\* The rows the CSV file is to hold: the header, then (k, lines[k]).
CsvRows(lns) == <<CsvHeader>> \o [i \in 1..Len(lns) |-> <<IntToStr(i), lns[i]>>]

\* The text column of the rows read, the header left out.
TextColumn(rows) == [i \in 1..(Len(rows) - 1) |-> rows[i + 1][2]]

HasLineBreak(t) == \E i \in 1..Len(t) : t[i] = "\n"

Written(op) ==
    /\ last_export # None
    /\ last_export[1].written
    /\ last_export[1].op = op

\* C7 as stated: for every list of line strings, the written text file is the
\* lines joined by newlines plus a final newline, the CSV file is the header
\* and the rows (k, lines[k]), and reading either file back gives the list.
C7_RoundTripEveryList ==
    /\ Written("export_txt") =>
           /\ fs[last_export[1].path].data
                  = JoinWith(<<"\n">>, last_export[1].arg) \o <<"\n">>
           /\ ReadTxt(fs[last_export[1].path].data) = last_export[1].arg
    /\ Written("export_csv") =>
           /\ ReadCsv(fs[last_export[1].path].data) = CsvRows(last_export[1].arg)
           /\ TextColumn(ReadCsv(fs[last_export[1].path].data)) = last_export[1].arg

\* C7, amended: the written content is as stated; the CSV file reads back to
\* the original list for every list; the text file reads back to the original
\* list for every non-empty list whose strings hold no line break.
C7_RoundTrip ==
    /\ Written("export_txt") =>
           /\ fs[last_export[1].path].data
                  = JoinWith(<<"\n">>, last_export[1].arg) \o <<"\n">>
           /\ (/\ last_export[1].arg # <<>>
               /\ \A i \in 1..Len(last_export[1].arg) :
                      ~HasLineBreak(last_export[1].arg[i]))
                  => ReadTxt(fs[last_export[1].path].data) = last_export[1].arg
    /\ Written("export_csv") =>
           /\ ReadCsv(fs[last_export[1].path].data) = CsvRows(last_export[1].arg)
           /\ TextColumn(ReadCsv(fs[last_export[1].path].data)) = last_export[1].arg

\* A CSV export of an empty string and a string needing quotes was written.
C7_Witness ==
    /\ Written("export_csv")
    /\ last_export[1].arg = << <<>>, <<",", "\"">> >>
    /\ fs[last_export[1].path].kind = "file"

\* After an export that wrote its file: the directories above the target
\* exist, the target holds the content the arguments determine, and every
\* other path is as it was before the first call.
ExportDetermined ==
    (last_export # None /\ last_export[1].written) =>
        /\ \A a \in Ancestors(last_export[1].path) : fs[a] = Dir
        /\ fs[last_export[1].path]
               = File(ExportedContent(last_export[1].op, last_export[1].arg))
        /\ \A q \in Nodes :
               (q # last_export[1].path /\ q \notin Ancestors(last_export[1].path))
                   => fs[q] = last_export[1].before[q]

\* A written export repeated and written again changes nothing.
ExportRepeated ==
    (/\ last_export # None
     /\ last_export[1].written
     /\ last_export' # None
     /\ last_export'[1].written
     /\ last_export'[1].nth = last_export[1].nth + 1) => fs' = fs

\* C8: after a successful export (one that wrote its file; a call that
\* returns without having written is not counted as successful), from
\* whatever file system it started, the directories above the target exist
\* and the target holds the content its arguments determine; no path other
\* than the target and the directories above it changes; and repeating the
\* export leaves the file system as the first export left it.
C8_Idempotent == []ExportDetermined /\ [][ExportRepeated]_vars

\* An export into a missing directory, written and then repeated, with an
\* old file elsewhere.
C8_Witness ==
    /\ last_export # None
    /\ last_export[1].nth = 2
    /\ last_export[1].written
    /\ last_export[1].path = <<"out", "r.txt">>
    /\ last_export[1].before[<<"out">>] = Absent
    /\ last_export[1].before[<<"r.txt">>] = File(Junk)
    /\ fs[<<"out">>] = Dir

-----------------------------------------------------------------------------
\* SpecGroup: group_into_lines on every small fragment list.

\* Vertical extents (y1, y2) and left edges x1 of the fragments tried.
GroupRows == {<<0, 0>>, <<0, 3>>, <<1, 1>>, <<1, 2>>}
GroupXs == {0, 1}
GroupTexts == {<<"a">>, <<"b">>}

\* group_into_lines ignores conf; the lists tried carry one value.
GroupConf == 90

GroupFragments ==
    {Fragment(Quad(x, r[1], x + 1, r[2]), t, GroupConf) :
        x \in GroupXs, r \in GroupRows, t \in GroupTexts}

\* Tolerances tried, in pixels.
GroupTols == {0, 1}

GroupInit ==
    /\ results_in \in SeqsUpTo(GroupFragments, MaxFrags)
    /\ y_tol \in {t * Den : t \in GroupTols}
    /\ items = <<>>
    /\ k = 0
    /\ lines = <<>>
    /\ line_cys = <<>>
    /\ out_lines = <<>>
    /\ gpc = "start"
    /\ placed_at = 0
    /\ RunIdle /\ GuiIdle /\ ExportIdle

\* Lines 96-105: build and sort the items, start with no cluster.
GroupStart ==
    /\ gpc = "start"
    /\ items' = SortItems(MakeItems(results_in))
    /\ k' = 1
    /\ lines' = <<>>
    /\ line_cys' = <<>>
    /\ gpc' = "loop"
    /\ UNCHANGED <<results_in, y_tol, out_lines, placed_at, rvars, uvars, evars>>

\* Lines 107-117: one iteration of the outer loop.
Place ==
    /\ gpc = "loop"
    /\ k <= Len(items)
    /\ LET st == PlaceItem([lines |-> lines, cys |-> line_cys, at |-> 0],
                           items[k], y_tol)
       IN  /\ lines' = st.lines
           /\ line_cys' = st.cys
           /\ placed_at' = st.at
    /\ k' = k + 1
    /\ UNCHANGED <<results_in, y_tol, items, out_lines, gpc, rvars, uvars, evars>>

\* Lines 119-123: sort each cluster by x1, join, return.
Finish ==
    /\ gpc = "loop"
    /\ k > Len(items)
    /\ lines' = [i \in 1..Len(lines) |-> SortLine(lines[i])]
    /\ out_lines' = OutLines(lines)
    /\ gpc' = "done"
    /\ UNCHANGED <<results_in, y_tol, items, k, line_cys, placed_at, rvars, uvars, evars>>

GroupNext ==
    \/ GroupStart
    \/ Place
    \/ Finish

SpecGroup == GroupInit /\ [][GroupNext]_vars

-----------------------------------------------------------------------------
\* Properties of group_into_lines.

\* Position in the sorted items of the fragment with ghost id `id`.
PosInItems(id) == CHOOSE p \in 1..Len(items) : items[p].id = id

\* The seed of a cluster: its member that was placed first.
SeedPos(line) == Min({PosInItems(line[i].id) : i \in 1..Len(line)})

\* C2: group_into_lines returns its lines in top-to-bottom visual order:
\* clusters are opened in non-decreasing order of their seed's top edge y1,
\* and for output lines i < j the final running centre of line i's cluster is
\* not below (not greater than) that of line j's cluster.
C2_LinesTopToBottom ==
    gpc = "done" =>
        \A i, j \in 1..Len(lines) :
            i < j =>
                /\ items[SeedPos(lines[i])].y1 <= items[SeedPos(lines[j])].y1
                /\ line_cys[i] <= line_cys[j]

\* The permutations of 1..n.
Perms(n) == {f \in [1..n -> 1..n] : \A a, b \in 1..n : f[a] = f[b] => a = b}

\* C3: the order of the list handed to group_into_lines is irrelevant: every
\* permutation of the argument (fragments tying on (y1, x1) included) gives
\* the identical sequence of line strings.
C3_OrderIrrelevant ==
    gpc = "done" =>
        \A f \in Perms(Len(results_in)) :
            GroupIntoLines([i \in 1..Len(results_in) |-> results_in[f[i]]], y_tol)
                = out_lines

\* C10: each fragment, taken in ascending (y1, x1) order, goes to the
\* lowest-index cluster whose running centre is within y_tol of its cy
\* (boundary included); that cluster's centre alone becomes
\* 0.7*old + 0.3*cy and nothing else changes; when no cluster qualifies a new
\* cluster seeded with centre cy is appended and no existing cluster changes.
C10_FirstMatchPlacement ==
    [][(gpc = "loop" /\ k <= Len(items) /\ k' = k + 1) =>
        LET it == items[k]
            Q == {i \in 1..Len(line_cys) : Abs(it.cy - line_cys[i]) <= y_tol}
        IN  /\ (k >= 2 => KeyLeq(items[k - 1], it))
            /\ IF Q # {}
               THEN LET m == Min(Q)
                    IN  /\ Len(lines') = Len(lines)
                        /\ Len(line_cys') = Len(line_cys)
                        /\ lines'[m] = Append(lines[m], Member(it))
                        /\ 10 * line_cys'[m] = 7 * line_cys[m] + 3 * it.cy
                        /\ \A i \in 1..Len(lines) :
                               i # m => /\ lines'[i] = lines[i]
                                        /\ line_cys'[i] = line_cys[i]
               ELSE /\ lines' = Append(lines, <<Member(it)>>)
                    /\ line_cys' = Append(line_cys, it.cy)
      ]_vars

\* C10's case: the last fragment joined cluster m although a later cluster,
\* also within the tolerance, was closer to it.  (7 * (old - cy) equals
\* 10 * (new - cy), which recovers the distance to the old centre.)
C10_Witness ==
    /\ gpc = "loop"
    /\ k >= 2
    /\ placed_at >= 1
    /\ Len(lines[placed_at]) >= 2
    /\ LET it == items[k - 1]
       IN  \E j \in (placed_at + 1)..Len(line_cys) :
               /\ Abs(it.cy - line_cys[j]) <= y_tol
               /\ 7 * Abs(it.cy - line_cys[j]) < 10 * Abs(it.cy - line_cys[placed_at])

\* The vertical centre of a fragment, 0.5 * (y1 + y2), times Den as y_tol is.
FragCy(frag) ==
    (bbox_to_rect(frag.bbox).y1 + bbox_to_rect(frag.bbox).y2) * (Den \div 2)

FragY1(frag) == bbox_to_rect(frag.bbox).y1
FragX1(frag) == bbox_to_rect(frag.bbox).x1

\* The centres of the fragments handed in pairwise differ by more than y_tol.
Separated ==
    \A i, j \in 1..Len(results_in) :
        i # j => Abs(FragCy(results_in[i]) - FragCy(results_in[j])) > y_tol

\* The input is two fragments whose centres differ by at most y_tol.
ClosePair ==
    /\ Len(results_in) = 2
    /\ Abs(FragCy(results_in[1]) - FragCy(results_in[2])) <= y_tol

\* The texts of a cluster's members, in the cluster's order.
MemberTexts(line) == [i \in 1..Len(line) |-> results_in[line[i].id].text]

\* C11: when the centres of all fragments pairwise differ by more than y_tol
\* the output has one line per fragment, in ascending y1 order; when the
\* input is two fragments whose centres differ by at most y_tol the output is
\* one line, both texts in ascending x1 order joined by one space; and in
\* every output line the member texts are in non-decreasing x1 order, joined
\* by single spaces.  (Line 122 trims trailing whitespace from each line.)
C11_SeparateAndMerge ==
    gpc = "done" =>
        /\ Separated =>
               /\ Len(out_lines) = Len(results_in)
               /\ \A i \in 1..Len(lines) : Len(lines[i]) = 1
               /\ \A i, j \in 1..Len(lines) :
                      i < j => /\ lines[i][1].id # lines[j][1].id
                               /\ FragY1(results_in[lines[i][1].id])
                                      <= FragY1(results_in[lines[j][1].id])
               /\ \A i \in 1..Len(lines) :
                      out_lines[i] = RStrip(results_in[lines[i][1].id].text)
        /\ ClosePair =>
               /\ Len(out_lines) = 1
               /\ \E l, r \in 1..2 :
                      /\ l # r
                      /\ FragX1(results_in[l]) <= FragX1(results_in[r])
                      /\ out_lines[1] = RStrip(results_in[l].text \o <<" ">>
                                                  \o results_in[r].text)
        /\ Len(out_lines) = Len(lines)
        /\ \A n \in 1..Len(lines) :
               /\ \A i, j \in 1..Len(lines[n]) :
                      i < j => FragX1(results_in[lines[n][i].id])
                                   <= FragX1(results_in[lines[n][j].id])
               /\ out_lines[n] = RStrip(JoinWith(<<" ">>, MemberTexts(lines[n])))

\* Two fragments handed in right one first, their centres apart but within
\* the tolerance, came out as one line, left text first.
C11_Witness ==
    /\ gpc = "done"
    /\ ClosePair
    /\ FragCy(results_in[1]) # FragCy(results_in[2])
    /\ FragX1(results_in[1]) > FragX1(results_in[2])
    /\ results_in[1].text # results_in[2].text
    /\ out_lines = <<results_in[2].text \o <<" ">> \o results_in[1].text>>

====
